---- MODULE Spec2Model ----
(***************************************************************************)
(* A model of scripts/generate_test_data.py: the seeded generators of      *)
(* TestDataGenerator, the dataset builders, save_data / compress_data /    *)
(* generate_metadata and the run of main().                                *)
(*                                                                         *)
(* Representation of the data.  A JSON value is a record                   *)
(*   [kind, n, at, elem, items, digits]                                    *)
(*   string  : a generated string has n = its length, at = the generator  *)
(*             state its characters were drawn at (equal state and length  *)
(*             = equal characters), elem = "ascii" or "unicode", digits =  *)
(*             the code points of a unicode string; an ISO timestamp has   *)
(*             elem = "iso", digits = <<date, time of day>>; a string      *)
(*             written out in the source has at = -1 and elem = its text   *)
(*             (digits = the number formatted into it, if any)             *)
(*   integer, float : n = the number; a number too wide for n has         *)
(*             elem = "big", at = its sign, digits = its decimal digits    *)
(*             in groups of four, n = its power of ten                     *)
(*   boolean : n = 1 for True, 0 for False;   null : nothing              *)
(*   object  : items = its entries [key, val] in insertion order          *)
(*   array   : n = the number of elements.  An array of scalars keeps the *)
(*             generator state its first element was drawn at (at) and     *)
(*             the element type (elem): element i is a function of them,   *)
(*             see ElementAt.  An array of objects or arrays keeps its     *)
(*             elements in items.                                          *)
(* The module-level random generator of Python is one integer: the seed   *)
(* times Stride plus the number of random.* calls made since seeding.     *)
(* Raw is the number a call made in that state draws.                      *)
(***************************************************************************)
EXTENDS Integers, Sequences, FiniteSets, TLC

\* ------------------------------------------------------------ bounds
MaxSeed == 1
MaxCount == 2
MaxClock == 1
MaxRecords == 100
MaxOptions == 3
MaxSize == 3
MaxDepth == 3
MaxFields == 2
MaxOtherCalls == 1
MaxFiles == 3
\* the random generator: states per seed, and distinct numbers a call draws
Stride == 10000000
RawRange == 32003

\* ------------------------------------------------- program constants
DEFAULT_SEED == 42

FIELD_TYPES == <<"string", "integer", "float", "boolean", "null", "object", "array">>
STRING_LENGTHS == <<1, 10, 100, 1000, 10000, 100000>>
ARRAY_SIZES == <<1, 10, 100, 1000, 10000>>

None == "None"

\* ------------------------------------------------------------ values
Val(kind, n, at, elem, items, digits) ==
  [kind |-> kind, n |-> n, at |-> at, elem |-> elem, items |-> items, digits |-> digits]

NullV == Val("null", 0, 0, "", <<>>, <<>>)
BoolV(b) == Val("boolean", IF b THEN 1 ELSE 0, 0, "", <<>>, <<>>)
IntV(i) == Val("integer", i, 0, "", <<>>, <<>>)
FloatV(x) == Val("float", x, 0, "", <<>>, <<>>)
LitV(text) == Val("string", 0, -1, text, <<>>, <<>>)
EmptyStr == LitV("")
StrV(length, st) == Val("string", length, st, "ascii", <<>>, <<>>)
ObjV(entries) == Val("object", 0, 0, "", entries, <<>>)
EmptyArr == Val("array", 0, 0, "", <<>>, <<>>)
Entry(k, v) == [key |-> k, val |-> v]

Keys(obj) == [i \in 1..Len(obj.items) |-> obj.items[i].key]
KeySet(obj) == {obj.items[i].key : i \in 1..Len(obj.items)}
HasKey(obj, k) == k \in KeySet(obj)
Get(obj, k) == obj.items[CHOOSE i \in 1..Len(obj.items) : obj.items[i].key = k].val

\* f"field_{i}"
FieldNames ==
  <<"field_0", "field_1", "field_2", "field_3", "field_4",
    "field_5", "field_6", "field_7", "field_8", "field_9">>
FieldName(i) == FieldNames[i + 1]

\* ---------------------------------------------- the random generator

\* random.seed(seed): the generator state depends on abs(seed) only.
SeedState(seed) == (IF seed < 0 THEN -seed ELSE seed) * Stride

Raw(st) ==
  LET a == st % 32749
      b == (st \div 7) % 32719
  IN  (a * a + b * 31 + a * 7 + 11) % RawRange

\* random.randint(lo, hi): lo <= result <= hi
randint(lo, hi, st) ==
  IF hi - lo < RawRange
  THEN lo + (Raw(st) % (hi - lo + 1))
  ELSE lo + ((Raw(st) * ((hi - lo) \div (RawRange - 1))) % (hi - lo + 1))

\* random.choice(seq)
choice(seq, st) == seq[1 + (Raw(st) % Len(seq))]

\* random.random() < p / 10
random_below(p, st) == Raw(st) * 10 < p * RawRange

\* ------------------------------------------------- scalar generators
generate_string(length, st) ==
  IF length = 0
  THEN [val |-> EmptyStr, st |-> st]
  ELSE [val |-> StrV(length, st), st |-> st + 1]

generate_integer(min_val, max_val, st) ==
  [val |-> IntV(randint(min_val, max_val, st)), st |-> st + 1]

generate_float(min_val, max_val, st) ==
  [val |-> FloatV(randint(min_val, max_val, st)), st |-> st + 1]

generate_boolean(st) ==
  [val |-> BoolV(choice(<<TRUE, FALSE>>, st)), st |-> st + 1]

generate_null(st) == [val |-> NullV, st |-> st]

\* The code point ranges generate_unicode_string draws from, in the order of
\* its if/elif chain.
UnicodeBands ==
  << [name |-> "ascii", lo |-> 32, hi |-> 126],
     [name |-> "latin1", lo |-> 128, hi |-> 255],
     [name |-> "bmp", lo |-> 256, hi |-> 65535],
     [name |-> "supplementary", lo |-> 65536, hi |-> 1114111] >>

\* chr(random.randint(lo, hi)) of band k, the number drawn in state st
band_char(k, st) ==
  [cp |-> randint(UnicodeBands[k].lo, UnicodeBands[k].hi, st), st |-> st + 1]

\* One character of generate_unicode_string: the band tests draw one
\* number each until one succeeds, then the code point draws one more.
unicode_char(st) ==
  IF random_below(3, st) THEN band_char(1, st + 1)
  ELSE IF random_below(5, st + 1) THEN band_char(2, st + 2)
  ELSE IF random_below(7, st + 2) THEN band_char(3, st + 3)
  ELSE band_char(4, st + 3)

\* What a loop has made so far: the items, in order, and the generator state.
Nothing(st) == [val |-> <<>>, st |-> st]
\* The iterations head, then the iterations rest made from the state head left.
Join(head, rest) == [val |-> head.val \o rest.val, st |-> rest.st]

OneChar(c) == [val |-> <<c.cp>>, st |-> c.st]

RECURSIVE unicode_chars(_, _)
RECURSIVE unicode_rest(_, _)
\* for _ in range(length): the characters appended and the state after.  The
\* iterations are made as two halves, one after the other.
unicode_chars(length, st) ==
  IF length <= 0 THEN Nothing(st)
  ELSE IF length = 1 THEN OneChar(unicode_char(st))
  ELSE unicode_rest(unicode_chars(length \div 2, st), length - length \div 2)

unicode_rest(head, length) == Join(head, unicode_chars(length, head.st))

UnicodeV(r, st) ==
  [val |-> Val("string", Len(r.val), st, "unicode", <<>>, r.val), st |-> r.st]

generate_unicode_string(length, st) ==
  IF length = 0
  THEN [val |-> EmptyStr, st |-> st]
  ELSE UnicodeV(unicode_chars(length, st), st)

\* ---------------------------------------------- composite generators
ScalarTypes == {"string", "integer", "float", "boolean", "null"}
\* What one branch of an if/elif chain on field_type did: add = FALSE when
\* no branch matched and nothing was set.
NoValue(st) == [add |-> FALSE, val |-> NullV, st |-> st]
Added(r) == [add |-> TRUE, val |-> r.val, st |-> r.st]

\* The five branches that generate_array, generate_object and generate_record
\* share: the value made for a scalar field_type, and the state after.
scalar_value(field_type, st) ==
  CASE field_type = "string" ->
         generate_string(choice(STRING_LENGTHS, st), st + 1)
    [] field_type = "integer" -> generate_integer(-1000000, 1000000, st)
    [] field_type = "float" -> generate_float(-1000000, 1000000, st)
    [] field_type = "boolean" -> generate_boolean(st)
    [] field_type = "null" -> generate_null(st)

\* The random calls one scalar element of an array makes.
ElementCalls(field_type) == scalar_value(field_type, 0).st

\* generate_array for a scalar field_type.  Every iteration of its loop makes
\* ElementCalls random calls, so the loop is summed up: size elements, the
\* first drawn in state st.
scalar_array(size, field_type, st) ==
  IF size <= 0
  THEN [val |-> EmptyArr, st |-> st]
  ELSE [val |-> Val("array", size,
                    IF ElementCalls(field_type) = 0 THEN 0 ELSE st,
                    field_type, <<>>, <<>>),
        st |-> st + size * ElementCalls(field_type)]

RECURSIVE generate_object(_, _)
RECURSIVE object_loop(_, _, _, _)
RECURSIVE object_rest(_, _, _, _)

\* the chain without its test of depth: an object field is always expanded
object_field_expanding(field_type, depth, st) ==
  CASE field_type \in ScalarTypes -> Added(scalar_value(field_type, st))
    [] field_type = "object" -> Added(generate_object(depth - 1, st))
    [] field_type = "array" ->
         Added(scalar_array(choice(ARRAY_SIZES, st), "string", st + 1))
    [] OTHER -> NoValue(st)

\* The if/elif chain of generate_object's loop for one drawn field_type.
object_field(field_type, depth, st) ==
  CASE field_type \in ScalarTypes -> Added(scalar_value(field_type, st))
    [] field_type = "object" /\ depth > 1 -> Added(generate_object(depth - 1, st))
    [] field_type = "array" ->
         Added(scalar_array(choice(ARRAY_SIZES, st), "string", st + 1))
    [] OTHER -> NoValue(st)

\* obj[key] = value, when a branch set one; the keys of a loop differ
FieldItem(key, f) ==
  [val |-> IF f.add THEN <<Entry(key, f.val)>> ELSE <<>>, st |-> f.st]

\* One iteration of generate_object's loop.
object_step(i, depth, st) ==
  FieldItem(FieldName(i), object_field(choice(FIELD_TYPES, st), depth, st + 1))

\* for i in range(field_count), the count iterations from i on, made as two
\* halves, one after the other.
object_loop(i, count, depth, st) ==
  IF count <= 0 THEN Nothing(st)
  ELSE IF count = 1 THEN object_step(i, depth, st)
  ELSE object_rest(object_loop(i, count \div 2, depth, st),
                   i + count \div 2, count - count \div 2, depth)

object_rest(head, i, count, depth) ==
  Join(head, object_loop(i, count, depth, head.st))

AsObject(r) == [val |-> ObjV(r.val), st |-> r.st]

generate_object(depth, st) ==
  IF depth <= 0
  THEN [val |-> ObjV(<<>>), st |-> st]
  ELSE AsObject(object_loop(0, randint(1, 10, st), depth, st + 1))

\* The if/elif chain of generate_array's loop.
array_element(field_type, st) ==
  CASE field_type \in ScalarTypes -> Added(scalar_value(field_type, st))
    [] field_type = "object" -> Added(generate_object(randint(1, 5, st), st + 1))
    [] field_type = "array" ->
         Added(scalar_array(randint(1, 10, st), "string", st + 1))
    [] OTHER -> NoValue(st)

\* an element appended twice
ElementTwice(e) ==
  [val |-> IF e.add THEN <<e.val, e.val>> ELSE <<>>, st |-> e.st]

\* array.append(...), when a branch appended
Element(e) == [val |-> IF e.add THEN <<e.val>> ELSE <<>>, st |-> e.st]

RECURSIVE array_loop(_, _, _)
RECURSIVE array_rest(_, _, _)
\* for _ in range(size), made as two halves, one after the other.
array_loop(size, field_type, st) ==
  IF size <= 0 THEN Nothing(st)
  ELSE IF size = 1 THEN Element(array_element(field_type, st))
  ELSE array_rest(array_loop(size \div 2, field_type, st),
                  size - size \div 2, field_type)

array_rest(head, size, field_type) ==
  Join(head, array_loop(size, field_type, head.st))

AsArray(field_type, r) ==
  [val |-> IF r.val = <<>> THEN EmptyArr
           ELSE Val("array", Len(r.val), 0, field_type, r.val, <<>>),
   st |-> r.st]

generate_array(size, field_type, st) ==
  IF size = 0
  THEN [val |-> EmptyArr, st |-> st]
  ELSE IF field_type \in ScalarTypes
  THEN scalar_array(size, field_type, st)
  ELSE AsArray(field_type, array_loop(size, field_type, st))

\* len(array)
ArrayLen(arr) == IF arr.items # <<>> THEN Len(arr.items) ELSE arr.n

\* Element i (from 1) of an array value.
ElementAt(arr, i) ==
  IF arr.items # <<>>
  THEN arr.items[i]
  ELSE scalar_value(arr.elem, arr.at + (i - 1) * ElementCalls(arr.elem)).val

\* -------------------------------------------------- record assembler
\* The if/elif chain of generate_record's loop.
record_field(field_type, st) ==
  CASE field_type \in ScalarTypes -> Added(scalar_value(field_type, st))
    [] field_type = "object" -> Added(generate_object(randint(1, 3, st), st + 1))
    [] field_type = "array" ->
         Added(scalar_array(choice(ARRAY_SIZES, st), "string", st + 1))
    [] OTHER -> NoValue(st)

RECURSIVE record_loop(_, _, _, _)
RECURSIVE record_rest(_, _, _, _)
\* for i, field_type in enumerate(field_types), the count iterations from i
\* on, made as two halves, one after the other.
record_loop(i, count, field_types, st) ==
  IF count <= 0 THEN Nothing(st)
  ELSE IF count = 1
  THEN FieldItem(FieldName(i), record_field(field_types[i + 1], st))
  ELSE record_rest(record_loop(i, count \div 2, field_types, st),
                   i + count \div 2, count - count \div 2, field_types)

record_rest(head, i, count, field_types) ==
  Join(head, record_loop(i, count, field_types, head.st))

generate_record(field_types, st) ==
  AsObject(record_loop(0, Len(field_types), field_types, st))

\* ------------------------------------------------ dates and big numbers
\* A datetime is a number of seconds.  isoformat() writes the date and the
\* time of day; FromIso reads them back.
SecondsPerDay == 24 * 3600
isoformat(t) ==
  Val("string", 19, 0, "iso", <<>>, <<t \div SecondsPerDay, t % SecondsPerDay>>)
FromIso(v) == v.digits[1] * SecondsPerDay + v.digits[2]

\* datetime.now() when the clock reads c: half an hour before a midnight,
\* so that the steps of a time series cross a date.
DateTimeNow(c) == 20000 * SecondsPerDay - 1800 + c

\* Decimal digits in groups of four, most significant first.
RECURSIVE BigTimes(_, _, _)
\* the number g times m, plus carry
BigTimes(g, m, carry) ==
  IF g = <<>>
  THEN IF carry = 0 THEN <<>>
       ELSE Append(BigTimes(<<>>, m, carry \div 10000), carry % 10000)
  ELSE LET last == g[Len(g)] * m + carry
       IN  Append(BigTimes(SubSeq(g, 1, Len(g) - 1), m, last \div 10000),
                  last % 10000)

RECURSIVE BigPow2(_)
\* 2 ** k
BigPow2(k) ==
  IF k <= 16 THEN BigTimes(<<1>>, 2 ^ k, 0)
  ELSE BigTimes(BigPow2(k - 16), 2 ^ 16, 0)

\* g - 1, for a number that does not end in a zero group
BigPred(g) == [i \in 1..Len(g) |-> IF i = Len(g) THEN g[i] - 1 ELSE g[i]]

BigV(kind, sign, groups, exp10) == Val(kind, exp10, sign, "big", <<>>, groups)

\* ------------------------------------------------- category datasets
\* an iteration that leaves current_time as it was
time_series_step_frozen(current_time, st) ==
  [val |-> <<ObjV(<<Entry("timestamp", isoformat(current_time))>>)>>,
   st |-> st + 6, current_time |-> current_time]

\* One iteration of generate_time_series_data's loop: the record appended,
\* the state and current_time after.
time_series_step(current_time, st) ==
  LET value == generate_float(-1000000, 1000000, st)
      category == choice(<<"A", "B", "C", "D">>, value.st)
      level == choice(<<"DEBUG", "INFO", "WARN", "ERROR">>, value.st + 1)
      message == generate_string(randint(10, 100, value.st + 2), value.st + 3)
      record == ObjV(<<Entry("timestamp", isoformat(current_time)),
                       Entry("value", value.val),
                       Entry("category", LitV(category)),
                       Entry("level", LitV(level)),
                       Entry("message", message.val)>>)
  IN  [val |-> <<record>>, st |-> message.st + 1,
       current_time |-> current_time + randint(1, 3600, message.st)]

JoinSeries(head, rest) ==
  [val |-> head.val \o rest.val, st |-> rest.st, current_time |-> rest.current_time]

RECURSIVE time_series_loop(_, _, _)
RECURSIVE time_series_rest(_, _)
\* for i in range(count), made as two halves, one after the other.
time_series_loop(count, current_time, st) ==
  IF count <= 0
  THEN [val |-> <<>>, st |-> st, current_time |-> current_time]
  ELSE IF count = 1 THEN time_series_step(current_time, st)
  ELSE time_series_rest(time_series_loop(count \div 2, current_time, st),
                        count - count \div 2)

time_series_rest(head, count) ==
  JoinSeries(head, time_series_loop(count, head.current_time, head.st))

Dataset(r) == [val |-> r.val, st |-> r.st]

generate_time_series_data(count, start_time, st) ==
  Dataset(time_series_loop(count, start_time, st))

\* f"com.example.{...}" and f"thread-{...}"
LoggerName(part) ==
  CASE part = "service" -> "com.example.service"
    [] part = "controller" -> "com.example.controller"
    [] part = "repository" -> "com.example.repository"
ThreadName(k) == Val("string", 0, -1, "thread-", <<>>, <<k>>)

\* One iteration of generate_log_data's loop; now: what datetime.now()
\* returns (the iterations of one call read the same second).
log_step(now, st) ==
  LET level == choice(<<"DEBUG", "INFO", "WARN", "ERROR", "FATAL">>, st)
      logger == LoggerName(choice(<<"service", "controller", "repository">>, st + 1))
      message == generate_string(randint(20, 200, st + 2), st + 3)
      thread == ThreadName(randint(1, 10, message.st))
      user_id == randint(1, 10000, message.st + 1)
      session_id == generate_string(32, message.st + 2)
      request_id == generate_string(16, session_id.st)
      duration_ms == randint(1, 5000, request_id.st)
      memory_mb == randint(100, 10000, request_id.st + 1)
      record == ObjV(<<Entry("timestamp", isoformat(now)),
                       Entry("level", LitV(level)),
                       Entry("logger", LitV(logger)),
                       Entry("message", message.val),
                       Entry("thread", thread),
                       Entry("user_id", IntV(user_id)),
                       Entry("session_id", session_id.val),
                       Entry("request_id", request_id.val),
                       Entry("duration_ms", IntV(duration_ms)),
                       Entry("memory_mb", IntV(memory_mb))>>)
  IN  [val |-> <<record>>, st |-> request_id.st + 2]

RECURSIVE log_loop(_, _, _)
RECURSIVE log_rest(_, _, _)
\* for i in range(count), made as two halves, one after the other.
log_loop(count, now, st) ==
  IF count <= 0 THEN Nothing(st)
  ELSE IF count = 1 THEN log_step(now, st)
  ELSE log_rest(log_loop(count \div 2, now, st), count - count \div 2, now)

log_rest(head, count, now) == Join(head, log_loop(count, now, head.st))

\* for i in range(count - 1)
generate_log_data_short(count, now, st) == log_loop(count - 1, now, st)

generate_log_data(count, now, st) == log_loop(count, now, st)

\* an iteration that draws its base_string anew
compression_step_fresh(i, base_string, base_object, now, st) ==
  [val |-> <<ObjV(<<Entry("id", IntV(i)),
                    Entry("base_string", generate_string(1000, st).val),
                    Entry("base_object", base_object),
                    Entry("varying_field", generate_string(10, st + 1).val),
                    Entry("timestamp", isoformat(now))>>)>>,
   st |-> st + 2]

\* One iteration of generate_compression_test_data's loop.
compression_step(i, base_string, base_object, now, st) ==
  LET varying == generate_string(10, st)
      record == ObjV(<<Entry("id", IntV(i)),
                       Entry("base_string", base_string),
                       Entry("base_object", base_object),
                       Entry("varying_field", varying.val),
                       Entry("timestamp", isoformat(now))>>)
  IN  [val |-> <<record>>, st |-> varying.st]

RECURSIVE compression_loop(_, _, _, _, _)
RECURSIVE compression_rest(_, _, _, _, _)
\* for i in range(count), the count iterations from i on, made as two
\* halves, one after the other.  base: base_string and base_object.
compression_loop(i, count, base, now, st) ==
  IF count <= 0 THEN Nothing(st)
  ELSE IF count = 1 THEN compression_step(i, base.string, base.object, now, st)
  ELSE compression_rest(compression_loop(i, count \div 2, base, now, st),
                        i + count \div 2, count - count \div 2, base, now)

compression_rest(head, i, count, base, now) ==
  Join(head, compression_loop(i, count, base, now, head.st))

\* base_string, then base_object, and the state after both
compression_base(base_string, base_object) ==
  [string |-> base_string.val, object |-> base_object.val, st |-> base_object.st]

compression_records(count, base, now) ==
  compression_loop(0, count, base, now, base.st)

compression_object(base_string) ==
  compression_base(base_string, generate_object(2, base_string.st))

generate_compression_test_data(count, now, st) ==
  compression_records(count, compression_object(generate_string(1000, st)), now)

\* {"field1": a, "field2": b, "field3": c}
Three(a, b, c) ==
  ObjV(<<Entry("field1", a), Entry("field2", b), Entry("field3", c)>>)

\* A record of three generated values, made one after the other.
Record3(a, b, c) == [val |-> Three(a.val, b.val, c.val), st |-> c.st]

long_strings(st) ==
  LET a == generate_string(100000, st)
      b == generate_string(100000, a.st)
  IN  Record3(a, b, generate_string(100000, b.st))

unicode_strings_2(a, b) == Record3(a, b, generate_unicode_string(100, b.st))
unicode_strings_1(a) == unicode_strings_2(a, generate_unicode_string(100, a.st))
unicode_strings(st) == unicode_strings_1(generate_unicode_string(100, st))

nested_objects_2(a, b) == Record3(a, b, generate_object(5, b.st))
nested_objects_1(a) == nested_objects_2(a, generate_object(5, a.st))
nested_objects(st) == nested_objects_1(generate_object(5, st))

large_arrays_2(a, b) == Record3(a, b, generate_array(10000, "float", b.st))
large_arrays_1(a) == large_arrays_2(a, generate_array(10000, "integer", a.st))
large_arrays(st) == large_arrays_1(generate_array(10000, "string", st))

\* the nested objects and the large arrays put into one record
edge_cases_merged(strings, unicode, objects, arrays) ==
  [val |-> << ObjV(<<>>),
              Three(NullV, NullV, NullV),
              Three(LitV(""), LitV(""), LitV("")),
              strings.val,
              Three(BigV("integer", 1, BigPred(BigPow2(63)), 0),
                    BigV("integer", -1, BigPow2(63), 0),
                    BigV("float", 1, <<1, 7976, 9313, 4862, 3157>>, 292)),
              unicode.val,
              Three(Get(objects.val, "field1"), Get(arrays.val, "field2"),
                    Get(arrays.val, "field3")) >>,
   st |-> arrays.st]

\* edge_cases, and the state after the generator calls made for it
edge_cases(strings, unicode, objects, arrays) ==
  [val |-> << ObjV(<<>>),
              Three(NullV, NullV, NullV),
              Three(LitV(""), LitV(""), LitV("")),
              strings.val,
              Three(BigV("integer", 1, BigPred(BigPow2(63)), 0),
                    BigV("integer", -1, BigPow2(63), 0),
                    BigV("float", 1, <<1, 7976, 9313, 4862, 3157>>, 292)),
              unicode.val,
              objects.val,
              arrays.val >>,
   st |-> arrays.st]

edge_cases_2(strings, unicode, objects) ==
  edge_cases(strings, unicode, objects, large_arrays(objects.st))
edge_cases_1(strings, unicode) ==
  edge_cases_2(strings, unicode, nested_objects(unicode.st))
edge_cases_0(strings) == edge_cases_1(strings, unicode_strings(strings.st))

generate_edge_case_data(st) == edge_cases_0(long_strings(st))

\* ------------------------------------------------ json, files, hashing
\* The order of Python's sorted() on the keys the generators write.
SortedKeys ==
  <<"base_object", "base_string", "category", "duration_ms", "field1", "field2",
    "field3", "field_0", "field_1", "field_2", "field_3", "field_4", "field_5",
    "field_6", "field_7", "field_8", "field_9", "id", "level", "logger",
    "memory_mb", "message", "request_id", "session_id", "thread", "timestamp",
    "user_id", "value", "varying_field">>
KeyRank(k) == CHOOSE i \in 1..Len(SortedKeys) : SortedKeys[i] = k

RECURSIVE InsertEntry(_, _)
\* entries sorted by key, with e put in its place
InsertEntry(entries, e) ==
  IF entries = <<>>
  THEN <<e>>
  ELSE IF KeyRank(e.key) < KeyRank(entries[1].key)
  THEN <<e>> \o entries
  ELSE <<entries[1]>> \o InsertEntry(Tail(entries), e)

RECURSIVE SortEntries(_)
SortEntries(entries) ==
  IF entries = <<>>
  THEN <<>>
  ELSE InsertEntry(SortEntries(Tail(entries)), entries[1])

RECURSIVE SortKeys(_)
\* What sort_keys=True writes for a value: the keys of every object in it
\* in sorted order.
SortKeys(v) ==
  CASE v.kind = "object" ->
         ObjV(SortEntries([i \in 1..Len(v.items) |->
                             Entry(v.items[i].key, SortKeys(v.items[i].val))]))
    [] v.kind = "array" /\ v.items # <<>> ->
         Val("array", v.n, v.at, v.elem,
             [i \in 1..Len(v.items) |-> SortKeys(v.items[i])], <<>>)
    [] OTHER -> v

\* A Python list of records as the JSON array json.dumps writes for it.
ListV(records) ==
  IF records = <<>> THEN EmptyArr
  ELSE Val("array", Len(records), 0, "object", records, <<>>)

\* json.dumps that writes the keys in insertion order whatever sort_keys is
json_dumps_unsorted(value, indent, sort_keys) == [indent |-> indent, json |-> value]

\* json.dumps(value, indent=indent, sort_keys=sort_keys): the text written,
\* known by its layout and the value with its keys in the order written.
json_dumps(value, indent, sort_keys) ==
  [indent |-> indent, json |-> IF sort_keys THEN SortKeys(value) ELSE value]

\* hashlib.sha256(text.encode()).hexdigest(): equal digests for equal texts
sha256(text) == [sha256 |-> text]

FormatChoices == {"json", "ndjson", "jsonl"}
CompressChoices == {"gzip", "bzip2", "lzma"}
CategoryChoices == {"unit", "integration", "performance", "stress", "conformance"}
SizeChoices == {"small", "medium", "large", "xlarge"}

\* What save_data writes into the file, for a supported format.
FileText(data, format) ==
  IF format = "json"
  THEN <<json_dumps(ListV(data), 2, FALSE)>>
  ELSE [i \in 1..Len(data) |-> json_dumps(data[i], 0, FALSE)]

\* Paths: the directories from the output directory down, and a file name
\* made of its stem (the parts joined by "_") and its suffixes.
Path(dirs, stem, suffixes) == [dirs |-> dirs, stem |-> stem, suffixes |-> suffixes]
ParentDirs(path) == {SubSeq(path.dirs, 1, k) : k \in 1..Len(path.dirs)}
\* Path.with_suffix(s): the last suffix replaced by the suffixes of s
with_suffix(path, suffixes) ==
  Path(path.dirs, path.stem,
       SubSeq(path.suffixes, 1, Len(path.suffixes) - 1) \o suffixes)

OutputDir(a) == <<a.output_dir, a.category, a.size>>
\* f"{args.count}"
CountText(a) == ToString(a.count)
OutputFile(a) ==
  Path(OutputDir(a), <<"test_data", a.category, a.size, CountText(a)>>, <<a.format>>)
CompressedFile(a) == with_suffix(OutputFile(a), <<a.format, a.compress>>)
MetadataFile(a) ==
  Path(OutputDir(a), <<"test_data", a.category, a.size, CountText(a), "metadata">>,
       <<"json">>)

\* ------------------------------------------------- provenance tags
\* Path.parts of a path: its directories and its file name.  A part is the
\* sequence of the pieces its text is joined from, a directory being one piece.
parts(path) ==
  [i \in 1..Len(path.dirs) |-> <<path.dirs[i]>>]
    \o <<path.stem \o path.suffixes>>

\* The names _extract_tags looks for, in the order of its tests.
TagNames ==
  <<"unit", "integration", "performance", "stress", "conformance",
    "small", "medium", "large", "xlarge">>

Among(part, seq) == \E i \in 1..Len(seq) : seq[i] = part

\* _extract_tags that looks for the size names first
extract_tags_sizes_first(fixture_path) ==
  LET names == SubSeq(TagNames, 6, 9) \o SubSeq(TagNames, 1, 5)
      IsPart(name) == Among(<<name>>, parts(fixture_path))
  IN  SelectSeq(names, IsPart)

\* ProvenanceGenerator._extract_tags(fixture_path)
extract_tags(fixture_path) ==
  LET IsPart(name) == Among(<<name>>, parts(fixture_path))
  IN  SelectSeq(TagNames, IsPart)

\* f @@ (p :> c) with p overwritten when it exists
WriteFile(fs, path, content) ==
  [q \in DOMAIN fs \cup {path} |-> IF q = path THEN content ELSE fs[q]]

\* metadata whose data_hash is the hash of the records as save_data lays
\* them out for the format
generate_metadata_of_file(gen, data, generation_params, now) ==
  [version |-> gen.version,
   generated_at |-> isoformat(now),
   generator_seed |-> gen.seed,
   record_count |-> Len(data),
   generation_params |-> generation_params,
   data_hash |-> sha256(json_dumps(ListV(data),
                                   IF generation_params.format = "json" THEN 2 ELSE 0,
                                   FALSE)),
   provenance |-> [generator |-> "jac_test_data_generator",
                   generator_version |-> "1.0.0",
                   python_version |-> "sys.version",
                   generation_time |-> now]]

generate_metadata(gen, data, generation_params, now) ==
  [version |-> gen.version,
   generated_at |-> isoformat(now),
   generator_seed |-> gen.seed,
   record_count |-> Len(data),
   generation_params |-> generation_params,
   data_hash |-> sha256(json_dumps(ListV(data), 0, TRUE)),
   provenance |-> [generator |-> "jac_test_data_generator",
                   generator_version |-> "1.0.0",
                   python_version |-> "sys.version",
                   generation_time |-> now]]

\* ------------------------------------------------------------ the run
VARIABLES
  argv,          \* the options of the invocation, as given
  pc,            \* where the run is
  args,          \* the parsed arguments (args.count an integer)
  generator,     \* the TestDataGenerator: its seed and version
  random_state,  \* the state of the module-level random generator
  data,          \* the dataset built by the category dispatch
  result,        \* what a direct call of a generator method returned
  files,         \* path -> content of the files written
  dirs,          \* the directories made
  metadata,      \* the metadata of the run, once made
  error,         \* the exception that ended the run, if any
  clock,         \* the last reading of the system clock
  run,           \* 1 for the first run, 2 for the run repeated with the same argv
  first,         \* the dataset and hash of the first run, kept for the second
  other,         \* a second TestDataGenerator of a direct caller, and the
                 \* number of calls made on it
  provenance_dir, \* validator: file -> document, the *_provenance.json files
  pending,       \* validator: the files the glob has yet to yield
  printed,       \* validator: the lines printed
  validator_pc,  \* validator: where its run is
  raised         \* validator: the exception that ended its run, if any

generation == <<argv, pc, args, generator, random_state, data, result, files,
                dirs, metadata, error, clock, run, first, other>>
validation == <<provenance_dir, pending, printed, validator_pc, raised>>
vars == <<argv, pc, args, generator, random_state, data, result, files, dirs,
          metadata, error, clock, run, first, other,
          provenance_dir, pending, printed, validator_pc, raised>>

DEFAULT_OUTPUT_DIR == "testdata"
DEFAULT_VERSION == "1.0.0"

Seeds == {DEFAULT_SEED} \cup 0..MaxSeed
\* --output-dir: the default, and a directory named as a category is
OutputDirs == {DEFAULT_OUTPUT_DIR, "stress"}
FieldTypeLists ==
  {FIELD_TYPES, <<"string", "integer", "boolean">>, <<"integer", "unicode", "object">>}

\* argparse's defaults.  count: <<>> when --count is not given.
Defaults ==
  [via |-> "cli", output_dir |-> DEFAULT_OUTPUT_DIR, seed |-> DEFAULT_SEED,
   version |-> DEFAULT_VERSION, format |-> "ndjson", compress |-> None,
   category |-> "integration", size |-> "medium", count |-> <<>>,
   field_types |-> FIELD_TYPES]

\* via = "cli": main() on a command line.  via = "api": a caller that makes
\* the calls of main() itself, on parameters argparse has not checked.
\* via = "direct": a caller that constructs the generator with a seed and
\* calls one of its methods.
Invocations ==
  [via : {"cli", "api", "direct"}, output_dir : OutputDirs, seed : Seeds,
   version : {DEFAULT_VERSION}, format : FormatChoices \cup {"xml"},
   compress : CompressChoices \cup {None, "zip"}, category : CategoryChoices,
   size : SizeChoices, count : {<<>>} \cup {<<n>> : n \in 0..MaxCount},
   field_types : FieldTypeLists]

size_counts(size) ==
  CASE size = "small" -> 100
    [] size = "medium" -> 1000
    [] size = "large" -> 10000
    [] size = "xlarge" -> 100000

\* args.count after lines 352-359
EffectiveCount(a) == IF a.count = <<>> THEN size_counts(a.size) ELSE a.count[1]

\* A command line argparse accepts.
Accepted(a) ==
  a.format \in FormatChoices /\ a.compress \in CompressChoices \cup {None}

\* The invocations enumerated: at most MaxOptions options differ from their
\* defaults, an invocation that leaves the count to its size class counting
\* one more, and the loops of the run build at most MaxRecords records.  The
\* api callers are the ones with parameters argparse rejects (with others
\* they run as the command line does); a direct caller has a seed and none of
\* main's options.
OptionsGiven(a) ==
  Cardinality({f \in DOMAIN Defaults : a[f] # Defaults[f]})
    + (IF a.count = <<>> /\ a.category # "unit" THEN 1 ELSE 0)
Enumerated(a) ==
  CASE a.via = "direct" -> a = [Defaults EXCEPT !.via = "direct", !.seed = a.seed]
    [] a.via = "api" ->
         /\ ~Accepted(a)
         /\ OptionsGiven(a) <= MaxOptions
         /\ a.category = "unit" \/ EffectiveCount(a) <= MaxRecords
    [] OTHER ->
         /\ OptionsGiven(a) <= MaxOptions
         /\ a.category = "unit" \/ EffectiveCount(a) <= MaxRecords

NoResult == [call |-> ""]
NoGenerator == [seed |-> -1, version |-> ""]
NoMetadata == [version |-> ""]
NoFiles == [q \in {} |-> <<>>]
NoOther == [instance |-> NoGenerator, calls |-> 0]
Unseeded == SeedState(MaxSeed + DEFAULT_SEED + 1)

Init ==
  /\ argv \in {a \in Invocations : Enumerated(a)}
  /\ pc = "parse"
  /\ args = argv
  /\ generator = NoGenerator
  /\ random_state = Unseeded
  /\ data = <<>>
  /\ result = NoResult
  /\ files = NoFiles
  /\ dirs = {}
  /\ metadata = NoMetadata
  /\ error = ""
  /\ clock = 0
  /\ run = 1
  /\ first = [made |-> FALSE, data |-> <<>>, data_hash |-> sha256(<<>>)]
  /\ other = NoOther
  /\ provenance_dir = NoFiles
  /\ pending = {}
  /\ printed = <<>>
  /\ validator_pc = "idle"
  /\ raised = ""

\* parser.parse_args() and the default count.  argparse ends the run with a
\* usage error when --format or --compress is not among its choices.
ParseArgs ==
  /\ pc = "parse"
  /\ IF argv.via = "cli" /\ ~Accepted(argv)
     THEN /\ pc' = "usage_error"
          /\ error' = "SystemExit"
          /\ args' = args
     ELSE /\ pc' = "construct"
          /\ error' = error
          /\ args' = [argv EXCEPT !.count = EffectiveCount(argv)]
  /\ UNCHANGED <<validation, other, argv, generator, random_state, data, result, files, dirs,
                 metadata, clock, run, first>>

\* TestDataGenerator(seed, version): __init__ seeds the module-level generator.
Construct ==
  /\ pc = "construct"
  /\ generator' = [seed |-> args.seed, version |-> args.version]
  /\ random_state' = SeedState(args.seed)
  /\ pc' = "generate"
  /\ UNCHANGED <<validation, other, argv, args, data, result, files, dirs, metadata, error,
                 clock, run, first>>

OneRecord(r) == [val |-> <<r.val>>, st |-> r.st]

RECURSIVE records_loop(_, _, _)
RECURSIVE records_rest(_, _, _)
\* [generator.generate_record(args.field_types) for _ in range(count)], made
\* as two halves, one after the other.
records_loop(count, field_types, st) ==
  IF count <= 0 THEN Nothing(st)
  ELSE IF count = 1 THEN OneRecord(generate_record(field_types, st))
  ELSE records_rest(records_loop(count \div 2, field_types, st),
                    count - count \div 2, field_types)

records_rest(head, count, field_types) ==
  Join(head, records_loop(count, field_types, head.st))

\* The category dispatch of main: the dataset and the generator state after
\* it.  now: what datetime.now() returns during the call.
Dispatch(a, now, st) ==
  CASE a.category = "unit" -> generate_edge_case_data(st)
    [] a.category = "integration" -> records_loop(a.count, a.field_types, st)
    [] a.category = "performance" -> generate_log_data(a.count, DateTimeNow(now), st)
    [] a.category = "stress" ->
         generate_compression_test_data(a.count, DateTimeNow(now), st)
    [] a.category = "conformance" ->
         generate_time_series_data(a.count, DateTimeNow(now), st)
    [] OTHER -> records_loop(a.count, a.field_types, st)

ReadsClock(a) == a.category \in {"performance", "stress", "conformance"}

\* data = ...: the dataset, and the generator state the calls left
Generated(r) ==
  /\ data' = r.val
  /\ random_state' = r.st

Generate ==
  /\ pc = "generate"
  /\ argv.via # "direct"
  /\ \E now \in clock..MaxClock :
       /\ ReadsClock(args) \/ now = clock
       /\ clock' = now
       /\ Generated(Dispatch(args, now, random_state))
  /\ pc' = "save"
  /\ UNCHANGED <<validation, other, argv, args, generator, result, files, dirs, metadata, error,
                 run, first>>

\* save_data that writes the records line by line for any other format
SaveDataAnyFormat ==
  /\ pc = "save"
  /\ dirs' = dirs \cup ParentDirs(OutputFile(args))
  /\ files' = WriteFile(files, OutputFile(args), FileText(data, args.format))
  /\ pc' = IF args.compress # None THEN "compress" ELSE "metadata"
  /\ UNCHANGED <<validation, other, argv, args, generator, random_state, data, result, metadata,
                 error, clock, run, first>>

\* generator.save_data(data, output_file, args.format)
SaveData ==
  /\ pc = "save"
  /\ dirs' = dirs \cup ParentDirs(OutputFile(args))
  /\ IF args.format \in FormatChoices
     THEN /\ files' = WriteFile(files, OutputFile(args), FileText(data, args.format))
          /\ pc' = IF args.compress # None THEN "compress" ELSE "metadata"
          /\ error' = error
     ELSE /\ files' = files
          /\ pc' = "failed"
          /\ error' = "ValueError: Unsupported format"
  /\ UNCHANGED <<validation, other, argv, args, generator, random_state, data, result, metadata,
                 clock, run, first>>

\* generator.compress_data(output_file, compressed_file, args.compress)
CompressData ==
  /\ pc = "compress"
  /\ dirs' = dirs \cup ParentDirs(CompressedFile(args))
  /\ IF OutputFile(args) \notin DOMAIN files
     THEN /\ files' = files
          /\ pc' = "failed"
          /\ error' = "FileNotFoundError"
     ELSE IF args.compress \in CompressChoices
     THEN /\ files' = WriteFile(files, CompressedFile(args),
                                <<[codec |-> args.compress,
                                   bytes |-> files[OutputFile(args)]]>>)
          /\ pc' = "metadata"
          /\ error' = error
     ELSE /\ files' = files
          /\ pc' = "failed"
          /\ error' = "ValueError: Unsupported compression"
  /\ UNCHANGED <<validation, other, argv, args, generator, random_state, data, result, metadata,
                 clock, run, first>>

\* metadata = generator.generate_metadata(data, vars(args)); json.dump of it
WriteMetadata ==
  /\ pc = "metadata"
  /\ \E now \in clock..MaxClock :
       /\ clock' = now
       /\ metadata' = generate_metadata(generator, data, args, DateTimeNow(now))
  /\ files' = WriteFile(files, MetadataFile(args), <<json_dumps(metadata', 2, FALSE)>>)
  /\ pc' = "done"
  /\ UNCHANGED <<validation, other, argv, args, generator, random_state, data, result, dirs, error,
                 run, first>>

\* The same invocation made again, in a new process: the files stay.
Rerun ==
  /\ pc = "done"
  /\ run = 1
  /\ run' = 2
  /\ first' = [made |-> TRUE, data |-> data, data_hash |-> metadata.data_hash]
  /\ pc' = "parse"
  /\ args' = argv
  /\ generator' = NoGenerator
  /\ random_state' = Unseeded
  /\ data' = <<>>
  /\ result' = NoResult
  /\ metadata' = NoMetadata
  /\ error' = ""
  /\ UNCHANGED <<validation, other, argv, files, dirs, clock>>

\* A direct call of one generator method by a caller of the class.
DirectTypes == {FIELD_TYPES[i] : i \in 1..Len(FIELD_TYPES)} \cup {"unicode"}
TypeLists(n) == UNION {[1..k -> DirectTypes] : k \in 0..n}

\* result = generator.<call>(<inputs>), the generator state the call was made
\* at, and the generator state it left
Returned(call, inputs, r) ==
  /\ result' = [call |-> call, inputs |-> inputs, val |-> r.val,
                at |-> random_state]
  /\ random_state' = r.st

CallGenerateArray ==
  /\ pc = "generate"
  /\ argv.via = "direct"
  /\ \E size \in -1..MaxSize, field_type \in DirectTypes :
       Returned("generate_array", [size |-> size, field_type |-> field_type],
                generate_array(size, field_type, random_state))
  /\ pc' = "called"
  /\ UNCHANGED <<validation, other, argv, args, generator, data, files, dirs, metadata, error,
                 clock, run, first>>

CallGenerateObject ==
  /\ pc = "generate"
  /\ argv.via = "direct"
  /\ \E depth \in -1..MaxDepth :
       Returned("generate_object", [depth |-> depth],
                generate_object(depth, random_state))
  /\ pc' = "called"
  /\ UNCHANGED <<validation, other, argv, args, generator, data, files, dirs, metadata, error,
                 clock, run, first>>

CallGenerateRecord ==
  /\ pc = "generate"
  /\ argv.via = "direct"
  /\ \E field_types \in TypeLists(MaxFields) :
       Returned("generate_record", [field_types |-> field_types],
                generate_record(field_types, random_state))
  /\ pc' = "called"
  /\ UNCHANGED <<validation, other, argv, args, generator, data, files, dirs, metadata, error,
                 clock, run, first>>

CallGenerateUnicodeString ==
  /\ pc = "generate"
  /\ argv.via = "direct"
  /\ \E length \in 0..MaxSize :
       Returned("generate_unicode_string", [length |-> length],
                generate_unicode_string(length, random_state))
  /\ pc' = "called"
  /\ UNCHANGED <<validation, other, argv, args, generator, data, files, dirs, metadata, error,
                 clock, run, first>>

\* other = TestDataGenerator(seed), made by a direct caller that holds a
\* generator already: __init__ seeds the module-level generator again.
ConstructOther ==
  /\ pc = "generate"
  /\ argv.via = "direct"
  /\ other = NoOther
  /\ \E seed \in Seeds :
       /\ other' = [instance |-> [seed |-> seed, version |-> DEFAULT_VERSION],
                    calls |-> 0]
       /\ random_state' = SeedState(seed)
  /\ UNCHANGED <<validation, argv, pc, args, generator, data, result, files, dirs, metadata,
                 error, clock, run, first>>

\* other.generate_boolean(), between the calls on the first generator
CallOther ==
  /\ pc = "generate"
  /\ argv.via = "direct"
  /\ other # NoOther
  /\ other.calls < MaxOtherCalls
  /\ other' = [other EXCEPT !.calls = @ + 1]
  /\ random_state' = generate_boolean(random_state).st
  /\ UNCHANGED <<validation, argv, pc, args, generator, data, result, files, dirs, metadata,
                 error, clock, run, first>>

\* The same content with its fields inserted in another order: the entries
\* of the objects reversed (at the top, below it, or both) or rotated.
Reorders == {"top", "nested", "all", "rotate"}
Reversed(entries) == [i \in 1..Len(entries) |-> entries[Len(entries) + 1 - i]]
Rotated(entries) ==
  IF entries = <<>> THEN entries ELSE Tail(entries) \o <<entries[1]>>

RECURSIVE Reorder(_, _, _)
Reorder(v, how, top) ==
  CASE v.kind = "object" ->
         LET inner == [i \in 1..Len(v.items) |->
                         Entry(v.items[i].key, Reorder(v.items[i].val, how, FALSE))]
         IN  ObjV(CASE how = "rotate" -> Rotated(inner)
                    [] how = "all" -> Reversed(inner)
                    [] how = "top" /\ top -> Reversed(inner)
                    [] how = "nested" /\ ~top -> Reversed(inner)
                    [] OTHER -> inner)
    [] v.kind = "array" /\ v.items # <<>> ->
         Val("array", v.n, v.at, v.elem,
             [i \in 1..Len(v.items) |-> Reorder(v.items[i], how, FALSE)], <<>>)
    [] OTHER -> v

\* generator.generate_metadata(data, params) by a direct caller, on the record
\* it has generated and on the same record built in another insertion order.
CallGenerateMetadata ==
  /\ pc = "called"
  /\ result.call \in {"generate_record", "generate_object"}
  /\ \E how \in Reorders, now \in clock..MaxClock :
       /\ clock' = now
       /\ result' =
            [call |-> "generate_metadata",
             inputs |-> [data |-> <<result.val>>,
                         reordered |-> <<Reorder(result.val, how, TRUE)>>],
             val |-> [data |-> generate_metadata(generator, <<result.val>>,
                                                 args, DateTimeNow(now)),
                      reordered |->
                        generate_metadata(generator,
                                          <<Reorder(result.val, how, TRUE)>>,
                                          args, DateTimeNow(now))]]
  /\ pc' = "hashed"
  /\ UNCHANGED <<validation, other, argv, args, generator, random_state, data, files, dirs,
                 metadata, error, run, first>>

Next ==
  \/ ParseArgs
  \/ Construct
  \/ Generate
  \/ SaveData
  \/ CompressData
  \/ WriteMetadata
  \/ Rerun
  \/ CallGenerateArray
  \/ CallGenerateObject
  \/ CallGenerateRecord
  \/ CallGenerateUnicodeString
  \/ CallGenerateMetadata
  \/ ConstructOther
  \/ CallOther

Spec == Init /\ [][Next]_vars

\* ------------------------------------------- scripts/validate_provenance.py
\* A provenance file holds a document: what json.load makes of its text.
\* json: "object", "array", "string", "null", or "invalid" for a text that
\* is not JSON.  members: the keys of an object, the elements of an array,
\* the names that occur in a string.
Document(json, members) == [json |-> json, members |-> members]

\* required_fields
required_fields == <<"provenance", "source", "transformations", "quality">>
RequiredSet == {required_fields[i] : i \in 1..Len(required_fields)}
\* the top-level keys generate_provenance writes
GeneratedKeys ==
  RequiredSet \cup {"usage", "lineage", "dependencies", "compliance", "audit_trail"}

Documents ==
  {Document("object", GeneratedKeys), Document("object", {})}
    \cup {Document("object", RequiredSet \ {k}) : k \in RequiredSet}
    \cup {Document("array", RequiredSet), Document("array", {}),
          Document("string", RequiredSet), Document("null", {}),
          Document("invalid", {})}

ProvenanceFiles == 1..MaxFiles
Directories ==
  UNION {[names -> Documents] : names \in SUBSET ProvenanceFiles}

\* json.load(f)
json_load(document) ==
  IF document.json = "invalid"
  THEN [raised |-> "JSONDecodeError"]
  ELSE [raised |-> "", val |-> document]

\* all(field in provenance for field in required_fields): "in" is the key
\* test of a dict, the element test of a list, the substring test of a str,
\* and a TypeError on any other value.
validate_schema(provenance) ==
  IF provenance.json \notin {"object", "array", "string"}
  THEN [raised |-> "TypeError"]
  ELSE [raised |-> "",
        val |-> \A i \in 1..Len(required_fields) :
                  required_fields[i] \in provenance.members]

validate_checksums(provenance) == TRUE
validate_timestamps(provenance) == TRUE
validate_dependencies(provenance) == TRUE

Warning(passed, text) == IF passed THEN <<>> ELSE <<text>>

\* validation_results after the four checks
validation_results(provenance, schema_valid) ==
  [raised |-> "",
   valid |-> schema_valid,
   errors |-> Warning(schema_valid, "Invalid provenance schema"),
   warnings |-> Warning(validate_checksums(provenance), "Checksum validation failed")
                  \o Warning(validate_timestamps(provenance),
                             "Timestamp validation failed")
                  \o Warning(validate_dependencies(provenance),
                             "Dependency validation failed"),
   checks |-> [schema_valid |-> schema_valid,
               checksums_valid |-> validate_checksums(provenance),
               timestamps_valid |-> validate_timestamps(provenance),
               dependencies_valid |-> validate_dependencies(provenance)]]

\* ProvenanceValidator.validate_provenance(provenance_file): its result, or
\* the exception json.load or _validate_schema raised
validate_provenance(dir, provenance_file) ==
  LET document == json_load(dir[provenance_file])
  IN  IF document.raised # ""
      THEN [raised |-> document.raised]
      ELSE LET schema == validate_schema(document.val)
           IN  IF schema.raised # ""
               THEN [raised |-> schema.raised]
               ELSE validation_results(document.val, schema.val)

Line(kind, file, texts) == [line |-> kind, file |-> file, texts |-> texts]

\* The lines one iteration of validate_all_provenance prints for results.
Report(file, results) ==
  <<Line("Validating", file, <<>>)>>
    \o (IF results.raised # "" THEN <<>>
        ELSE <<IF results.valid
               THEN Line("Valid", file, <<>>)
               ELSE Line("Invalid", file, results.errors)>>
             \o (IF results.warnings # <<>>
                 THEN <<Line("Warnings", file, results.warnings)>>
                 ELSE <<>>))

\* One iteration of the loop of validate_all_provenance, on the file the
\* glob yields next (it yields the files in no specified order).  An
\* exception of validate_provenance leaves the loop and ends the run.
ValidateFile ==
  /\ validator_pc = "loop"
  /\ \E file \in pending :
       LET results == validate_provenance(provenance_dir, file)
       IN  /\ printed' = printed \o Report(file, results)
           /\ pending' = pending \ {file}
           /\ raised' = results.raised
           /\ validator_pc' = IF results.raised # "" THEN "crashed" ELSE "loop"
  /\ UNCHANGED <<generation, provenance_dir>>

\* The glob is exhausted: main prints its last line.
ValidationCompleted ==
  /\ validator_pc = "loop"
  /\ pending = {}
  /\ printed' = printed \o <<Line("completed", 0, <<>>)>>
  /\ validator_pc' = "completed"
  /\ UNCHANGED <<generation, provenance_dir, pending, raised>>

\* The validator started on a directory of provenance files; no generator
\* run is under way.
ValidatorInit ==
  /\ provenance_dir \in Directories
  /\ pending = DOMAIN provenance_dir
  /\ printed = <<>>
  /\ validator_pc = "loop"
  /\ raised = ""
  /\ argv = Defaults
  /\ pc = "idle"
  /\ args = Defaults
  /\ generator = NoGenerator
  /\ random_state = Unseeded
  /\ data = <<>>
  /\ result = NoResult
  /\ files = NoFiles
  /\ dirs = {}
  /\ metadata = NoMetadata
  /\ error = ""
  /\ clock = 0
  /\ run = 1
  /\ first = [made |-> FALSE, data |-> <<>>, data_hash |-> sha256(<<>>)]
  /\ other = NoOther

ValidatorNext ==
  \/ ValidateFile
  \/ ValidationCompleted

ValidatorSpec == ValidatorInit /\ [][ValidatorNext]_vars

\* ========================================================= properties
\* A run of main() has built its dataset.
Built == argv.via # "direct" /\ pc \in {"save", "compress", "metadata", "done"}
\* The count requested: --count, or the default of the size class.
Requested == IF argv.count = <<>> THEN size_counts(argv.size) ELSE argv.count[1]

\* --------------------------------------------------------------- C1
\* C1: two independent runs with the same seed and the same parameters
\* build identical datasets and write identical data_hash values.
C1_Determinism ==
  (run = 2 /\ pc = "done") =>
    /\ data = first.data
    /\ metadata.data_hash = first.data_hash

\* --------------------------------------------------------------- C2
\* C2: for every category and every requested count N >= 0, the dataset
\* the category dispatch builds has exactly N records.
C2_CountFidelity == Built => Len(data) = Requested

\* C2, amended: for every category other than unit the dataset has exactly
\* N records (none for N = 0); the unit category gives the edge-case list,
\* 8 records whatever N is.
C2_CountFidelityButUnit ==
  Built =>
    /\ args.category # "unit" => Len(data) = Requested
    /\ args.category = "unit" => Len(data) = 8
    /\ metadata # NoMetadata => metadata.record_count = Len(data)

\* a run that left the count to its size class and built that many records
C2_Witness ==
  /\ Built
  /\ argv.count = <<>>
  /\ args.category = "performance"
  /\ Len(data) = 100

\* --------------------------------------------------------------- C3
RECURSIVE Depth(_)
\* The levels of objects nested in a value.
Depth(v) ==
  CASE v.kind = "object" ->
         1 + (IF v.items = <<>> THEN 0
              ELSE LET d == [i \in 1..Len(v.items) |-> Depth(v.items[i].val)]
                   IN  CHOOSE m \in {d[i] : i \in 1..Len(d)} :
                         \A i \in 1..Len(d) : d[i] <= m)
    [] OTHER -> 0

FieldsOf(rec) == <<Get(rec, "field1"), Get(rec, "field2"), Get(rec, "field3")>>
ThreeFields(rec) == Keys(rec) = <<"field1", "field2", "field3">>
LongStrings(rec) ==
  /\ ThreeFields(rec)
  /\ \A i \in 1..3 : FieldsOf(rec)[i].kind = "string" /\ FieldsOf(rec)[i].n = 100000
ExtremeNumbers(rec) ==
  rec = Three(BigV("integer", 1, <<922, 3372, 368, 5477, 5807>>, 0),
              BigV("integer", -1, <<922, 3372, 368, 5477, 5808>>, 0),
              BigV("float", 1, <<1, 7976, 9313, 4862, 3157>>, 292))
UnicodeHeavy(rec) ==
  /\ ThreeFields(rec)
  /\ \A i \in 1..3 : /\ FieldsOf(rec)[i].kind = "string"
                     /\ FieldsOf(rec)[i].elem = "unicode"
                     /\ Len(FieldsOf(rec)[i].digits) = 100
HoldsNestedObjects(rec) ==
  \A i \in 1..3 : /\ FieldsOf(rec)[i].kind = "object"
                  /\ Depth(FieldsOf(rec)[i]) \in 1..5
HoldsLargeArrays(rec) ==
  \A i \in 1..3 : /\ FieldsOf(rec)[i].kind = "array"
                  /\ ArrayLen(FieldsOf(rec)[i]) = 10000
FirstSix(d) ==
  /\ d[1] = ObjV(<<>>)
  /\ d[2] = Three(NullV, NullV, NullV)
  /\ d[3] = Three(LitV(""), LitV(""), LitV(""))
  /\ LongStrings(d[4])
  /\ ExtremeNumbers(d[5])
  /\ UnicodeHeavy(d[6])

\* C3: for every seed the edge-case generator returns exactly 7 records in
\* the fixed order, the last one holding the nested objects and the large
\* arrays.
C3_SevenRecords ==
  (Built /\ args.category = "unit") =>
    /\ Len(data) = 7
    /\ FirstSix(data)
    /\ \E a, b \in {"field1", "field2", "field3"} :
         /\ HasKey(data[7], a) /\ Get(data[7], a).kind = "object"
         /\ HasKey(data[7], b) /\ Get(data[7], b).kind = "array"

\* C3, amended: for every seed the edge-case generator returns exactly 8
\* records in a fixed order: the six of the claim, then a record of three
\* nested objects (depth at most 5), then a record of three arrays of
\* 10,000 elements.
C3_EightRecords ==
  (Built /\ args.category = "unit") =>
    /\ Len(data) = 8
    /\ FirstSix(data)
    /\ ThreeFields(data[7]) /\ HoldsNestedObjects(data[7])
    /\ ThreeFields(data[8]) /\ HoldsLargeArrays(data[8])

\* the edge cases of a seed other than the default, one object five deep
C3_Witness ==
  /\ Built
  /\ args.category = "unit"
  /\ args.seed # DEFAULT_SEED
  /\ \E i \in 1..3 : Depth(FieldsOf(data[7])[i]) >= 3

\* --------------------------------------------------------------- C4
RECURSIVE FieldsBounded(_)
\* Every object of a value, at every level, has at most 10 fields.
FieldsBounded(v) ==
  CASE v.kind = "object" ->
         /\ Len(v.items) <= 10
         /\ \A i \in 1..Len(v.items) : FieldsBounded(v.items[i].val)
    [] v.kind = "array" -> \A i \in 1..Len(v.items) : FieldsBounded(v.items[i])
    [] OTHER -> TRUE

\* C4: generate_array(size, t) returns at most size elements for size >= 0,
\* and [] for size 0; generate_object(depth) returns an object with at most
\* 10 fields at every level, and {} for depth <= 0.
C4_BoundedSize ==
  /\ result.call = "generate_array" =>
       /\ result.val.kind = "array"
       /\ result.inputs.size >= 0 => ArrayLen(result.val) <= result.inputs.size
       /\ result.inputs.size = 0 => result.val = EmptyArr
  /\ result.call = "generate_object" =>
       /\ result.val.kind = "object"
       /\ FieldsBounded(result.val)
       /\ result.inputs.depth <= 0 => result.val = ObjV(<<>>)
  /\ Built =>
       \A i \in 1..Len(data) : FieldsBounded(data[i])

\* an object two levels deep, returned by generate_object
C4_Witness ==
  /\ result.call = "generate_object"
  /\ result.inputs.depth >= 2
  /\ Depth(result.val) >= 2

\* --------------------------------------------------------------- C5
\* The JSON type of a value against a requested field type.
HasType(v, field_type) == v.kind = field_type

\* C5: generate_record(L) returns a record with exactly len(L) keys, named
\* field_0 .. field_{len(L)-1}, the value under field_i of the type L[i].
C5_RecordFields ==
  result.call = "generate_record" =>
    LET L == result.inputs.field_types
    IN  /\ Keys(result.val) = [i \in 1..Len(L) |-> FieldName(i - 1)]
        /\ \A i \in 1..Len(L) : HasType(result.val.items[i].val, L[i])

\* --------------------------------------------------------------- C6
\* The time of the timestamp of a record, in seconds.
TimeOf(rec) == FromIso(Get(rec, "timestamp"))

\* C6: generate_time_series_data(count, T) returns count records, the first
\* timestamp T (the clock read when main made the call: the clock of the state
\* until the metadata is made), each later timestamp 1 to 3600 seconds after
\* the one before.
C6_TimeSeries ==
  (Built /\ args.category = "conformance") =>
    /\ Len(data) = args.count
    /\ data # <<>> =>
         \E T \in 0..clock : /\ TimeOf(data[1]) = DateTimeNow(T)
                             /\ pc # "done" => T = clock
    /\ \A i \in 2..Len(data) :
         TimeOf(data[i]) - TimeOf(data[i - 1]) \in 1..3600

\* a series of 100 records that runs into the next day
C6_Witness ==
  /\ Built
  /\ args.category = "conformance"
  /\ Len(data) = 100
  /\ Get(data[100], "timestamp").digits[1] > Get(data[1], "timestamp").digits[1]

\* --------------------------------------------------------------- C7
\* The keys under which two records hold different values.
Differing(r1, r2) ==
  {k \in KeySet(r1) \cup KeySet(r2) :
     ~(HasKey(r1, k) /\ HasKey(r2, k) /\ Get(r1, k) = Get(r2, k))}

\* C7: all records of generate_compression_test_data(count) hold the same
\* base_string and base_object, and only varying_field and timestamp differ
\* between two records.
C7_OnlyVaryingAndTimestamp ==
  (Built /\ args.category = "stress") =>
    \A i, j \in 1..Len(data) :
      Differing(data[i], data[j]) \subseteq {"varying_field", "timestamp"}

\* C7, amended: all records hold the same base_string and the same
\* base_object; id (the position of the record, from 0), varying_field and
\* timestamp are the only fields that differ between two records.
C7_SharedBase ==
  (Built /\ args.category = "stress") =>
    /\ \A i \in 1..Len(data) :
         /\ Keys(data[i]) =
              <<"id", "base_string", "base_object", "varying_field", "timestamp">>
         /\ Get(data[i], "id") = IntV(i - 1)
         /\ Get(data[i], "base_string").n = 1000
         /\ Get(data[i], "base_object").kind = "object"
    /\ \A i, j \in 1..Len(data) :
         Differing(data[i], data[j]) \subseteq {"id", "varying_field", "timestamp"}

\* two records of one dataset that differ in varying_field
C7_Witness ==
  /\ Built
  /\ args.category = "stress"
  /\ Len(data) >= 2
  /\ "varying_field" \in Differing(data[1], data[2])
  /\ Get(data[1], "base_object").items # <<>>

\* --------------------------------------------------------------- C8
\* C8: two datasets with the same content whose objects were built in
\* different insertion orders get the same data_hash from generate_metadata.
C8_HashKeyOrder ==
  result.call = "generate_metadata" =>
    result.val.data.data_hash = result.val.reordered.data_hash

\* a record with a nested object, hashed with its fields in another order
C8_Witness ==
  /\ result.call = "generate_metadata"
  /\ result.inputs.data # result.inputs.reordered
  /\ Depth(result.inputs.data[1]) >= 2
  /\ Len(result.inputs.data[1].items) >= 2

\* --------------------------------------------------------------- C9
\* The dataset the category dispatch builds for the options a, whatever
\* their format and compression, when the clock reads T.
DatasetOf(a, T) ==
  Dispatch([a EXCEPT !.format = "ndjson", !.compress = None], T,
           SeedState(a.seed)).val

\* C9: after save_data and compress_data the dataset is still the one the
\* dispatch built, and the data_hash written is the hash of that dataset
\* with sorted keys, for every format and every compression.
C9_HashOfDataset ==
  (argv.via # "direct" /\ pc \in {"metadata", "done"}) =>
    \E T \in 0..clock :
      /\ data = DatasetOf(args, T)
      /\ pc = "done" =>
           /\ metadata.data_hash = sha256(json_dumps(ListV(DatasetOf(args, T)), 0, TRUE))
           /\ files[MetadataFile(args)][1].json.data_hash = metadata.data_hash

\* a dataset saved as indented json and compressed, its hash written
C9_Witness ==
  /\ pc = "done"
  /\ args.format = "json"
  /\ args.compress = "lzma"
  /\ CompressedFile(args) \in DOMAIN files
  /\ Len(data) >= 2

\* -------------------------------------------------------------- C10
\* C10: save_data with an unsupported format and compress_data with an
\* unsupported compression fail with that error and write no file of
\* theirs; the run ends there, and no metadata is made or written.
C10_Unsupported ==
  /\ pc = "failed" =>
       /\ metadata = NoMetadata
       /\ MetadataFile(args) \notin DOMAIN files
       /\ \/ /\ error = "ValueError: Unsupported format"
             /\ args.format \notin FormatChoices
             /\ files = NoFiles
          \/ /\ error = "ValueError: Unsupported compression"
             /\ args.compress \notin CompressChoices
             /\ DOMAIN files = {OutputFile(args)}
  /\ pc = "usage_error" => files = NoFiles /\ metadata = NoMetadata
  /\ (argv.format \notin FormatChoices /\ pc \notin {"parse", "construct", "generate", "save"})
       => pc \in {"failed", "usage_error"}
  /\ (argv.compress \notin CompressChoices \cup {None}
        /\ pc \notin {"parse", "construct", "generate", "save", "compress"})
       => pc \in {"failed", "usage_error"}

\* a run ended by an unsupported compression, after its data file was written
C10_Witness ==
  /\ pc = "failed"
  /\ error = "ValueError: Unsupported compression"
  /\ OutputFile(args) \in DOMAIN files

\* --------------------------------------------------------------- C12
\* The code points of the generate_unicode_string results in a value.
RECURSIVE CodePoints(_)
CodePoints(v) ==
  CASE v.kind = "string" /\ v.elem = "unicode" ->
         {v.digits[i] : i \in 1..Len(v.digits)}
    [] v.items # <<>> /\ v.kind = "object" ->
         UNION {CodePoints(v.items[i].val) : i \in 1..Len(v.items)}
    [] v.items # <<>> /\ v.kind = "array" ->
         UNION {CodePoints(v.items[i]) : i \in 1..Len(v.items)}
    [] OTHER -> {}

\* The code points of every unicode string the run has produced.
Produced ==
  UNION ({CodePoints(data[i]) : i \in 1..Len(data)}
         \cup {CodePoints(result.val) :
                 x \in {result.call} \cap {"generate_unicode_string"}})

Surrogates == 55296..57343

BandsDisjoint ==
  \A j, k \in 1..Len(UnicodeBands) :
    j < k => UnicodeBands[j].hi < UnicodeBands[k].lo

\* C12: every character generate_unicode_string produces has a code point
\* outside the surrogate range 0xD800-0xDFFF, and its four bands are
\* pairwise disjoint.
C12_ValidUnicode ==
  /\ BandsDisjoint
  /\ Produced \cap Surrogates = {}

\* --------------------------------------------------------------- C13
\* What a call returns on a generator whose random state is st.
ValueOf(call, inputs, st) ==
  CASE call = "generate_array" ->
         generate_array(inputs.size, inputs.field_type, st).val
    [] call = "generate_object" -> generate_object(inputs.depth, st).val
    [] call = "generate_record" -> generate_record(inputs.field_types, st).val
    [] call = "generate_unicode_string" ->
         generate_unicode_string(inputs.length, st).val

\* C13: the values a TestDataGenerator produces depend on its own seed and
\* its own calls only: the first call on a generator returns what its seed
\* gives, whether or not a second generator was constructed or called in
\* between.
C13_Isolation ==
  (argv.via = "direct" /\ pc = "called") =>
    result.val = ValueOf(result.call, result.inputs, SeedState(generator.seed))

\* --------------------------------------------------------------- C14
\* main has written its data file.
Saved == argv.via # "direct" /\ OutputFile(args) \in DOMAIN files

\* C14: the path of the data file main writes, given to _extract_tags,
\* yields exactly the two tags [category, size].
C14_PathTags ==
  Saved => extract_tags(OutputFile(args)) = <<args.category, args.size>>

\* C14, amended: the tags are the category and size names among the parts
\* output_dir, category and size, the category names first; they are
\* exactly [category, size] when output_dir is not itself such a name.
C14_PathTagsOfDir ==
  Saved =>
    LET tags == extract_tags(OutputFile(args))
        named == {args.output_dir, args.category, args.size}
    IN  /\ {tags[i] : i \in 1..Len(tags)}
             = named \cap {TagNames[i] : i \in 1..Len(TagNames)}
        /\ \A i, j \in 1..Len(tags) :
             (i < j /\ tags[i] \in SizeChoices) => tags[j] \in SizeChoices
        /\ ~Among(args.output_dir, TagNames)
             => tags = <<args.category, args.size>>

\* a data file written under the default directory for a category and a
\* size class that are not the defaults
C14_Witness ==
  /\ Saved
  /\ args.output_dir = DEFAULT_OUTPUT_DIR
  /\ args.category = "unit"
  /\ args.size = "xlarge"
  /\ extract_tags(OutputFile(args)) = <<"unit", "xlarge">>

\* --------------------------------------------------------------- C15
RECURSIVE DrawnTypes(_, _, _, _)
\* The field types generate_object(depth) draws for its fields i .. n-1,
\* field i drawn in state st.
DrawnTypes(i, n, depth, st) ==
  IF i >= n THEN <<>>
  ELSE <<choice(FIELD_TYPES, st)>>
         \o DrawnTypes(i + 1, n, depth, object_step(i, depth, st).st)

\* The field of type t of an object made with budget d, under the key or
\* left out.
FieldWithin(obj, key, t, d) ==
  IF t = "object" /\ d = 1
  THEN ~HasKey(obj, key)
  ELSE /\ HasKey(obj, key)
       /\ HasType(Get(obj, key), t)
       /\ t = "object" => Depth(Get(obj, key)) <= d - 1
       /\ t # "object" => Depth(Get(obj, key)) = 0

\* C15: for every depth d >= 1 an object returned by generate_object(d)
\* nests objects at most d deep; of the n fields drawn (n in 1..10) a field
\* whose drawn type is "object" is an object made with depth d - 1 when
\* d > 1 and is left out when d = 1, so the keys are among
\* field_0 .. field_{n-1}.
C15_RecursionBudget ==
  (result.call = "generate_object" /\ result.inputs.depth >= 1) =>
    LET d == result.inputs.depth
        n == randint(1, 10, result.at)
        types == DrawnTypes(0, n, d, result.at + 1)
    IN  /\ n \in 1..10
        /\ Depth(result.val) <= d
        /\ KeySet(result.val) \subseteq {FieldName(i) : i \in 0..(n - 1)}
        /\ \A i \in 0..(n - 1) :
             FieldWithin(result.val, FieldName(i), types[i + 1], d)

\* generate_object(1) that drew the type "object" for a field and left its
\* key out
C15_Witness ==
  /\ result.call = "generate_object"
  /\ result.inputs.depth = 1
  /\ Len(result.val.items) < randint(1, 10, result.at)
  /\ Len(result.val.items) > 0

\* --------------------------------------------------------------- C11
BatchEnded == validator_pc \in {"completed", "crashed"}
Printed(kind, file) ==
  \E i \in 1..Len(printed) : printed[i].line = kind /\ printed[i].file = file
\* The document of a file has the four required top-level keys.
HasRequiredKeys(file) ==
  /\ provenance_dir[file].json = "object"
  /\ RequiredSet \subseteq provenance_dir[file].members

\* C11: validate_all_provenance checks every provenance file of the batch;
\* a file that lacks one of the four required top-level keys is reported as
\* invalid, for that file only, and every other file is still checked.
C11_BatchContinues ==
  BatchEnded =>
    \A file \in DOMAIN provenance_dir :
      /\ Printed("Validating", file)
      /\ Printed("Valid", file) \/ Printed("Invalid", file)
      /\ Printed("Invalid", file) <=> ~HasRequiredKeys(file)

====
